---- MODULE Spec2Model ----
(***************************************************************************)
(* Model of the image upload pipeline of shaviimagetest:                   *)
(*   - the images route  (POST: validate all, optimize, persist variants   *)
(*     concurrently, aggregate stats),                                     *)
(*   - the simple route  (POST: validate and persist file by file),        *)
(*   - the Cloudinary helper used by the simple route.                     *)
(* Strings that the code splits are sequences: a filename is the sequence  *)
(* of its '.'-separated segments, a reference path the sequence of its     *)
(* components.  A buffer is its length and its first (at most 12) bytes.   *)
(***************************************************************************)
EXTENDS Integers, Sequences, FiniteSets, TLC

(* ---------------------------------------------------------------------- *)
(* Program constants                                                       *)
(* ---------------------------------------------------------------------- *)
maxFileSize == 20971520
maxFiles == 10
concurrency == 4
simpleMaxFileSize == 20971520
simpleMaxFiles == 10

(* ---------------------------------------------------------------------- *)
(* Bounds of the model                                                     *)
(* ---------------------------------------------------------------------- *)
MaxBatch == 2
MaxHead == 4

(* ---------------------------------------------------------------------- *)
(* Buffers and magic numbers                                               *)
(* ---------------------------------------------------------------------- *)
Undefined == -1

\* buffer[i] of a JavaScript Buffer: undefined past the end.
At(buffer, i) == IF i < Len(buffer.head) THEN buffer.head[i + 1] ELSE Undefined

Buf(head, length) == [head |-> head, length |-> length]

NoError == ""

\* The rich validator (lib/image-optimizer, not part of the sources at hand):
\* the magic-number check of the specification, with the full signatures.
validateImage(buffer) ==
    LET jpg == At(buffer, 0) = 255 /\ At(buffer, 1) = 216 /\ At(buffer, 2) = 255
        png == At(buffer, 0) = 137 /\ At(buffer, 1) = 80 /\ At(buffer, 2) = 78
               /\ At(buffer, 3) = 71
        gif == At(buffer, 0) = 71 /\ At(buffer, 1) = 73 /\ At(buffer, 2) = 70
        webp == At(buffer, 0) = 82 /\ At(buffer, 1) = 73 /\ At(buffer, 2) = 70
                /\ At(buffer, 3) = 70
                /\ At(buffer, 8) = 87 /\ At(buffer, 9) = 69 /\ At(buffer, 10) = 66
                /\ At(buffer, 11) = 80
    IN  IF jpg \/ png \/ gif \/ webp
        THEN [isValid |-> TRUE, error |-> NoError]
        ELSE [isValid |-> FALSE, error |-> "Invalid image format"]

fallbackValidateImage(buffer) ==
    LET jpg == At(buffer, 0) = 255 /\ At(buffer, 1) = 216 /\ At(buffer, 2) = 255
        png == At(buffer, 0) = 137 /\ At(buffer, 1) = 80 /\ At(buffer, 2) = 78
               /\ At(buffer, 3) = 71
        gif == At(buffer, 0) = 71 /\ At(buffer, 1) = 73 /\ At(buffer, 2) = 70
        webp == At(buffer, 8) = 87 /\ At(buffer, 9) = 69 /\ At(buffer, 10) = 66
                /\ At(buffer, 11) = 80
    IN  IF jpg \/ png \/ gif \/ webp
        THEN [isValid |-> TRUE, error |-> NoError]
        ELSE [isValid |-> FALSE, error |-> "Invalid image format"]

(* ---------------------------------------------------------------------- *)
(* Filenames                                                               *)
(* ---------------------------------------------------------------------- *)
\* String.prototype.toLowerCase on the segments the model uses.
toLowerCase(s) ==
    CASE s = "JPG" -> "jpg"
      [] s = "PNG" -> "png"
      [] s = "Photo" -> "photo"
      [] OTHER -> s

\* filename.split('.').pop(): the last segment; the whole name when it has no dot.
splitPop(filename) == filename[Len(filename)]

AllowedExtensions == {"jpg", "jpeg", "png", "gif", "webp"}

validateImageFile(buffer, filename) ==
    LET ext == toLowerCase(splitPop(filename))
        jpg == At(buffer, 0) = 255 /\ At(buffer, 1) = 216
        png == At(buffer, 0) = 137 /\ At(buffer, 1) = 80
        gif == At(buffer, 0) = 71 /\ At(buffer, 1) = 73
        webp == At(buffer, 8) = 87 /\ At(buffer, 9) = 69
    IN  IF buffer.length > simpleMaxFileSize
        THEN [isValid |-> FALSE, error |-> "File too large"]
        ELSE IF ext \notin AllowedExtensions
        THEN [isValid |-> FALSE, error |-> "Invalid file type"]
        ELSE IF jpg \/ png \/ gif \/ webp
        THEN [isValid |-> TRUE, error |-> NoError]
        ELSE [isValid |-> FALSE, error |-> "Invalid image format"]

(* ---------------------------------------------------------------------- *)
(* Optimization profiles                                                   *)
(* ---------------------------------------------------------------------- *)
Size(width, suffix) == [width |-> width, suffix |-> suffix]

\* the default branch returning the profile of 'fast'
getOptimizationOptionsDefaultFast(level) ==
    CASE level = "quality" ->
           [quality |-> 95, format |-> "webp",
            sizes |-> <<Size(400, "_thumb"), Size(800, "_medium"),
                        Size(1200, "_large"), Size(1920, "_xl")>>]
      [] OTHER ->
           [quality |-> 75, format |-> "webp",
            sizes |-> <<Size(800, "_optimized")>>]

getOptimizationOptions(level) ==
    CASE level = "fast" ->
           [quality |-> 75, format |-> "webp",
            sizes |-> <<Size(800, "_optimized")>>]
      [] level = "quality" ->
           [quality |-> 95, format |-> "webp",
            sizes |-> <<Size(400, "_thumb"), Size(800, "_medium"),
                        Size(1200, "_large"), Size(1920, "_xl")>>]
      [] OTHER ->
           [quality |-> 85, format |-> "webp",
            sizes |-> <<Size(400, "_thumb"), Size(800, "_medium"),
                        Size(1200, "_large")>>]

(* ---------------------------------------------------------------------- *)
(* Optimization strategies                                                 *)
(* ---------------------------------------------------------------------- *)
Variant(buffer, filename, format, size, width, height) ==
    [buffer |-> buffer, filename |-> filename, format |-> format,
     size |-> size, width |-> width, height |-> height]

\* filename.split('.').pop()?.toLowerCase() || 'jpg'
fallbackFormat(filename) ==
    LET ext == toLowerCase(splitPop(filename))
    IN  IF ext = "" THEN "jpg" ELSE ext

fallbackProcessImages(fileBuffers) ==
    [i \in 1..Len(fileBuffers) |->
        <<Variant(fileBuffers[i].buffer, fileBuffers[i].filename,
                  fallbackFormat(fileBuffers[i].filename),
                  fileBuffers[i].buffer.length, 800, 600)>>]

WebpHead == <<82, 73, 70, 70, 0, 0, 0, 0, 87, 69, 66, 80>>

\* name without its last segment; the whole name when it has no dot
Stem(filename) ==
    IF Len(filename) > 1 THEN SubSeq(filename, 1, Len(filename) - 1) ELSE filename

\* The rich optimizer (lib/image-optimizer, not part of the sources at hand):
\* one variant per size of the profile, in the profile's order, named by the
\* source name tagged with the size's suffix; outSize is the encoder's output
\* length, an input of the model.
processImagesInParallel(fileBuffers, options, outSize) ==
    [i \in 1..Len(fileBuffers) |->
        [v \in 1..Len(options.sizes) |->
            Variant(Buf(WebpHead, outSize),
                    Stem(fileBuffers[i].filename)
                        \o <<options.sizes[v].suffix, options.format>>,
                    options.format, outSize,
                    options.sizes[v].width, options.sizes[v].width)]]

(* ---------------------------------------------------------------------- *)
(* State                                                                   *)
(* ---------------------------------------------------------------------- *)
VARIABLES
    probe,            \* "rich" | "fallback": outcome of the require() at module load
    env,              \* environment markers that are set
    creds,            \* CLOUDINARY_CLOUD_NAME / _API_KEY / _API_SECRET, each the
                      \* sequence of its characters (<<>> = unset or empty)
    dirs,             \* upload types whose directory exists
    disk,             \* paths written by writeFile
    cloud,            \* references stored by a cloud provider
    uploadCalls,      \* provider upload calls started
    uploadFailures,   \* tasks (<<file, variant>> or <<file>>) whose upload call threw
    stamp,            \* names handed out by generateUniqueFileName
    pc,               \* position of the POST handler
    req,              \* the request being served
    isServerless,     \* images route: the resolved storage context
    vtask,            \* images route: state of each per-file validation task
    bufferedFiles,    \* files whose arrayBuffer() was requested
    validatedFiles,   \* files handed to a validator
    fileBuffers,      \* images route: result of the validation Promise.all
    optimizerCalls,   \* invocations of the optimizer
    optimizedResults, \* images route: variants per file
    stask,            \* images route: state of each per-variant save task
    saved,            \* images route: path returned by each save task
    idx,              \* simple route: index of the file in the loop
    uniqueFilename,   \* simple route: unique name of the current file
    uploadedImages,   \* simple route: references pushed so far
    response,         \* the response returned, NoResponse before
    callArg,          \* argument of a function applied on its own
    callRet,          \* its result
    used,             \* images route: the validator and the optimizer the request used
    mkdirCalls,       \* mkdir calls made
    peer,             \* a second request served while the first is in progress
    served            \* requests the process has answered and let go

processVars == <<probe, env, creds>>
storeVars == <<dirs, disk, cloud, uploadCalls, uploadFailures, stamp>>
imagesVars == <<isServerless, vtask, fileBuffers, optimizerCalls,
                optimizedResults, stask, saved>>
simpleVars == <<idx, uniqueFilename, uploadedImages>>
readVars == <<bufferedFiles, validatedFiles>>
callVars == <<callArg, callRet>>
auxVars == <<peer, served>>
vars == <<processVars, storeVars, pc, req, imagesVars, simpleVars, readVars,
          response, callVars, used, mkdirCalls, auxVars>>

(* ---------------------------------------------------------------------- *)
(* Requests and responses                                                  *)
(* ---------------------------------------------------------------------- *)
NoContentLength == -1
File(name, head, length) == [name |-> name, buffer |-> Buf(head, length)]
Request(route, files, type, optimization, contentLength) ==
    [route |-> route, files |-> files, type |-> type,
     optimization |-> optimization, contentLength |-> contentLength]
NoRequest == Request("", <<>>, "", "", NoContentLength)

\* formData.get('type') as string || 'products'
uploadTypeOf(r) == IF r.type = "" THEN "products" ELSE r.type
\* formData.get('optimization') as string || 'balanced'
optimizationLevelOf(r) == IF r.optimization = "" THEN "balanced" ELSE r.optimization

Message(kind, file) == [kind |-> kind, file |-> file]
NoMessage == Message("", <<>>)

Num(n) == [kind |-> "number", n |-> n]
NaN == [kind |-> "NaN", n |-> 0]
NegInfinity == [kind |-> "-Infinity", n |-> 0]

Stats(originalFiles, optimizedVariants, originalSize, optimizedSize, ratio) ==
    [originalFiles |-> originalFiles, optimizedVariants |-> optimizedVariants,
     originalSize |-> originalSize, optimizedSize |-> optimizedSize,
     compressionRatio |-> ratio]
\* the template literal `${compressionRatio}%`
Percent(x) == <<x, "%">>

NoStats == Stats(0, 0, 0, 0, Percent(Num(0)))

Resp(status, keys, success, error, message, images, stats) ==
    [status |-> status, keys |-> keys, success |-> success, error |-> error,
     message |-> message, images |-> images, stats |-> stats]
NoResponse == Resp(0, {}, FALSE, "", NoMessage, <<>>, NoStats)

Placeholder == <<"/placeholder-image.svg">>

(* ---------------------------------------------------------------------- *)
(* Helpers of the handlers                                                 *)
(* ---------------------------------------------------------------------- *)
RECURSIVE Sum(_)
Sum(q) == IF q = <<>> THEN 0 ELSE q[1] + Sum(Tail(q))

\* Array.prototype.flat() of an array of arrays
RECURSIVE flat(_)
flat(qq) == IF Len(qq) = 0 THEN <<>> ELSE qq[1] \o flat(Tail(qq))

\* Math.round(a / b) for b > 0: the nearest integer, halves rounded up
roundDiv(a, b) == (2 * a + b) \div (2 * b)

\* Math.round((d / b) * 100) for b > 0, by long division (two decimal digits
\* of d / b, then the half), so that no intermediate value leaves 32 bits
roundPercent(d, b) ==
    LET q1 == d \div b
        r1 == d % b
        q2 == (10 * r1) \div b
        r2 == (10 * r1) % b
        q3 == (10 * r2) \div b
        r3 == (10 * r2) % b
    IN  100 * q1 + 10 * q2 + q3 + (IF 2 * r3 >= b THEN 1 ELSE 0)

\* Math.floor in the place of Math.round
compressionRatioFloor(totalOptimizedSize, originalSize) ==
    IF originalSize = 0
    THEN IF totalOptimizedSize = 0 THEN NaN ELSE NegInfinity
    ELSE LET d == originalSize - totalOptimizedSize
             r1 == d % originalSize
             r2 == (10 * r1) % originalSize
         IN  Num(100 * (d \div originalSize) + 10 * ((10 * r1) \div originalSize)
                   + (10 * r2) \div originalSize)

\* Math.round((1 - totalOptimizedSize / originalSize) * 100)
compressionRatioOf(totalOptimizedSize, originalSize) ==
    IF originalSize = 0
    THEN IF totalOptimizedSize = 0 THEN NaN ELSE NegInfinity
    ELSE Num(roundPercent(originalSize - totalOptimizedSize, originalSize))

\* process.env.VERCEL || process.env.AWS_LAMBDA_FUNCTION_NAME || process.env.FUNCTION_NAME
imagesIsServerless(e) ==
    "VERCEL" \in e \/ "AWS_LAMBDA_FUNCTION_NAME" \in e \/ "FUNCTION_NAME" \in e

\* process.env.VERCEL || process.env.AWS_LAMBDA_FUNCTION_NAME
simpleIsServerless(e) == "VERCEL" \in e \/ "AWS_LAMBDA_FUNCTION_NAME" \in e

\* the test of the cloud name and the API key alone
isCloudinaryConfiguredNoSecret(c) ==
    c.cloudName # <<>> /\ c.apiKey # <<>>

isCloudinaryConfigured(c) ==
    c.cloudName # <<>> /\ c.apiKey # <<>> /\ c.apiSecret # <<>>

\* String.prototype.slice(-n): the last n characters, the whole string when
\* it has no more than n
sliceLast(s, n) ==
    IF Len(s) <= n THEN s ELSE SubSeq(s, Len(s) - n + 1, Len(s))

\* the literals '***', 'Not set' and 'Set'
Mask == <<"*", "*", "*">>
NotSetText == <<"N", "o", "t", " ", "s", "e", "t">>
SetText == <<"S", "e", "t">>

\* a status that masks the API secret the way it masks the other two
getCloudinaryStatusSecretTail(c) ==
    [configured |-> isCloudinaryConfigured(c),
     cloudName |-> IF c.cloudName # <<>>
                   THEN Mask \o sliceLast(c.cloudName, 4) ELSE NotSetText,
     apiKey |-> IF c.apiKey # <<>>
                THEN Mask \o sliceLast(c.apiKey, 4) ELSE NotSetText,
     apiSecret |-> IF c.apiSecret # <<>>
                   THEN Mask \o sliceLast(c.apiSecret, 4) ELSE NotSetText]

getCloudinaryStatus(c) ==
    [configured |-> isCloudinaryConfigured(c),
     cloudName |-> IF c.cloudName # <<>>
                   THEN Mask \o sliceLast(c.cloudName, 4) ELSE NotSetText,
     apiKey |-> IF c.apiKey # <<>>
                THEN Mask \o sliceLast(c.apiKey, 4) ELSE NotSetText,
     apiSecret |-> IF c.apiSecret # <<>> THEN SetText ELSE NotSetText]

\* `uploads/${uploadType}/${filename}`
localPath(type, filename) == <<"uploads", type>> \o filename

\* the reference uploadWithFallback resolves with (lib/cloud-storage is not part
\* of the sources at hand; the handler only passes the string on)
cloudUrl(type, filename) == <<"https:", type>> \o filename

\* result.secure_url of cloudinary.uploader.upload with
\* folder = type, public_id = filename.split('.')[0]
secureUrl(type, filename) == <<"https:", "res.cloudinary.com", type, filename[1]>>

NoPath == <<>>

\* values collected in the order the tasks complete: the value goes to the
\* first free index
storeInCompletionOrder(results, f, v, value) ==
    LET free(g, w) == results[g][w] = NoPath
        first == CHOOSE t \in {<<g, w>> : g \in 1..Len(results), w \in 1..Len(results[1])} :
                    /\ t[2] <= Len(results[t[1]])
                    /\ free(t[1], t[2])
                    /\ \A g \in 1..Len(results) : \A w \in 1..Len(results[g]) :
                          free(g, w) => (t[1] < g \/ (t[1] = g /\ t[2] <= w))
    IN  [results EXCEPT ![first[1]][first[2]] = value]

\* Promise.all: the value of task (f, v) is stored at index (f, v)
storeResult(results, f, v, value) == [results EXCEPT ![f][v] = value]

\* an upload error answered with the placeholder instead of being rethrown
saveTaskResultFailOpen(ok, imagePath) ==
    [state |-> "ok", path |-> IF ok THEN imagePath ELSE <<"/placeholder-image.svg">>]

\* try { imagePath = await uploadWithFallback(...) } catch (error) { throw error }
saveTaskResult(ok, imagePath) ==
    IF ok THEN [state |-> "ok", path |-> imagePath]
          ELSE [state |-> "failed", path |-> NoPath]

\* the Promise.all of the validation tasks taken as fulfilled by the first
\* fulfilled task (Promise.any)
anyOk(tasks) == \E i \in 1..Len(tasks) : tasks[i] = "ok"

\* Promise.all is fulfilled once every task is
allOk(tasks) == \A i \in 1..Len(tasks) : tasks[i] = "ok"
allSaved(tasks) ==
    \A f \in 1..Len(tasks) : \A v \in 1..Len(tasks[f]) : tasks[f][v] = "ok"

fileBuffersOf(files) ==
    [i \in 1..Len(files) |-> [buffer |-> files[i].buffer, filename |-> files[i].name]]

\* the stats with the variants counted as the files
imagesStatsPerFile(files, buffers, results, images) ==
    LET sizes == flat([f \in 1..Len(results) |->
                        [v \in 1..Len(results[f]) |-> results[f][v].size]])
        totalOptimizedSize == Sum(sizes)
        originalSize == Sum([i \in 1..Len(buffers) |-> buffers[i].buffer.length])
    IN  Stats(Len(files), Len(files), roundDiv(originalSize, 1024),
              roundDiv(totalOptimizedSize, 1024),
              Percent(compressionRatioOf(totalOptimizedSize, originalSize)))

imagesStats(files, buffers, results, images) ==
    LET sizes == flat([f \in 1..Len(results) |->
                        [v \in 1..Len(results[f]) |-> results[f][v].size]])
        totalOptimizedSize == Sum(sizes)
        originalSize == Sum([i \in 1..Len(buffers) |-> buffers[i].buffer.length])
    IN  Stats(Len(files), Len(images), roundDiv(originalSize, 1024),
              roundDiv(totalOptimizedSize, 1024),
              Percent(compressionRatioOf(totalOptimizedSize, originalSize)))

ImagesFailure(message) ==
    Resp(500, {"success", "error", "message", "processingTime", "details"},
         FALSE, "Image upload failed", message, <<>>, NoStats)

ImagesSuccess(files, buffers, results, paths) ==
    LET images == flat(paths)
    IN  Resp(200, {"success", "images", "message", "stats"}, TRUE, "",
             Message("Successfully uploaded", <<>>), images,
             imagesStats(files, buffers, results, images))

(* ---------------------------------------------------------------------- *)
(* Images route: POST                                                      *)
(* ---------------------------------------------------------------------- *)
\* files.map(async (file) => ...): every callback runs up to its first await;
\* an oversize file rejects its promise at once, the others request their bytes.
startValidation(files) ==
    [i \in 1..Len(files) |->
        IF files[i].buffer.length > maxFileSize THEN "rejected" ELSE "buffering"]

firstRejected(vt) ==
    CHOOSE i \in 1..Len(vt) :
        vt[i] = "rejected" /\ \A j \in 1..(i - 1) : vt[j] # "rejected"

ValidationStarted(files) ==
    LET vt == startValidation(files)
    IN  /\ vtask' = vt
        /\ bufferedFiles' = {i \in 1..Len(vt) : vt[i] = "buffering"}
        /\ IF \E i \in 1..Len(vt) : vt[i] = "rejected"
           THEN /\ response' = ImagesFailure(
                                   Message("is too large", files[firstRejected(vt)].name))
                /\ pc' = "done"
           ELSE /\ response' = response
                /\ pc' = "i_validating"

\* the limit applied as files.length >= maxFiles
tooManyFilesAtLimit(n) == n >= maxFiles

\* files.length > maxFiles
tooManyFiles(n) == n > maxFiles

\* contentLength && parseInt(contentLength) > maxFileSize * maxFiles
requestTooLarge(contentLength) ==
    contentLength # NoContentLength /\ contentLength > maxFileSize * maxFiles

ImagesPOST(r) ==
    /\ pc = "idle"
    /\ r.route = "images"
    /\ req' = r
    /\ isServerless' = imagesIsServerless(env)
    /\ IF requestTooLarge(r.contentLength)
       THEN /\ response' = Resp(413, {"error", "maxSize"}, FALSE, "Request too large",
                                NoMessage, <<>>, NoStats)
            /\ pc' = "done"
            /\ UNCHANGED <<vtask, bufferedFiles>>
       ELSE IF Len(r.files) = 0
       THEN /\ response' = Resp(400, {"error"}, FALSE, "No files uploaded",
                                NoMessage, <<>>, NoStats)
            /\ pc' = "done"
            /\ UNCHANGED <<vtask, bufferedFiles>>
       ELSE IF tooManyFiles(Len(r.files))
       THEN /\ response' = Resp(400, {"error"}, FALSE, "Too many files",
                                NoMessage, <<>>, NoStats)
            /\ pc' = "done"
            /\ UNCHANGED <<vtask, bufferedFiles>>
       ELSE IF ~imagesIsServerless(env) /\ uploadTypeOf(r) \notin dirs
       THEN /\ pc' = "i_mkdir"
            /\ UNCHANGED <<response, vtask, bufferedFiles>>
       ELSE ValidationStarted(r.files)
    /\ UNCHANGED <<processVars, storeVars, fileBuffers, optimizerCalls,
                   optimizedResults, stask, saved, simpleVars, validatedFiles,
                   callVars,
                   used, mkdirCalls, auxVars>>

\* mkdir without the recursive option: EEXIST when the directory is there
mkdirExclusive(existing, dir) ==
    [thrown |-> dir \in existing, dirs |-> existing \cup {dir}]

\* mkdir(uploadDir, { recursive: true }): creates the directory, and resolves
\* as well when it exists already
mkdir(existing, dir) ==
    [thrown |-> FALSE, dirs |-> existing \cup {dir}]

\* await mkdir(uploadDir, { recursive: true })
ImagesMkdir ==
    /\ pc = "i_mkdir"
    /\ mkdirCalls' = mkdirCalls + 1
    /\ LET made == mkdir(dirs, uploadTypeOf(req))
       IN  /\ dirs' = made.dirs
           /\ IF made.thrown
              THEN /\ response' = ImagesFailure(Message("EEXIST", <<>>))
                   /\ pc' = "done"
                   /\ UNCHANGED <<vtask, bufferedFiles>>
              ELSE ValidationStarted(req.files)
    /\ UNCHANGED <<processVars, disk, cloud, uploadCalls, uploadFailures, stamp,
                   req, isServerless, fileBuffers, optimizerCalls,
                   optimizedResults, stask, saved, simpleVars, validatedFiles,
                   callVars, used, auxVars>>

\* A validation task settles; the handler, suspended on Promise.all, goes to its
\* catch block on the first rejection and on to the optimizer once all are ok.
ValidationSettled(i, validation) ==
    LET vt == [vtask EXCEPT ![i] = IF validation.isValid THEN "ok" ELSE "rejected"]
    IN  /\ vtask' = vt
        /\ IF pc # "i_validating"
           THEN UNCHANGED <<pc, response, fileBuffers, optimizerCalls>>
           ELSE IF ~validation.isValid
           THEN /\ response' = ImagesFailure(
                                   Message(validation.error, req.files[i].name))
                /\ pc' = "done"
                /\ UNCHANGED <<fileBuffers, optimizerCalls>>
           ELSE IF allOk(vt)
           THEN /\ fileBuffers' = fileBuffersOf(req.files)
                /\ optimizerCalls' = optimizerCalls + 1
                /\ pc' = "i_optimizing"
                /\ response' = response
           ELSE UNCHANGED <<pc, response, fileBuffers, optimizerCalls>>

\* the optimizer taken from the fallback whatever the probe found
optimizerAlwaysFallback(p) == "fallback"

\* processImagesInParallel ? processImagesInParallel(...) : fallbackProcessImages(...)
optimizerOf(p) == IF p = "rich" THEN "rich" ELSE "fallback"

\* validateImage ? validateImage(buffer) : fallbackValidateImage(buffer)
validatorOf(p) == IF p = "rich" THEN "rich" ELSE "fallback"

NoUse == [validator |-> "", optimizer |-> ""]

\* file.arrayBuffer() resolves; validateImage ? await validateImage(buffer)
\*                                            : fallbackValidateImage(buffer)
ImagesBufferReady(i) ==
    /\ i \in 1..Len(vtask)
    /\ vtask[i] = "buffering"
    /\ validatedFiles' = validatedFiles \cup {i}
    /\ used' = [used EXCEPT !.validator = validatorOf(probe)]
    /\ IF validatorOf(probe) = "rich"
       THEN /\ vtask' = [vtask EXCEPT ![i] = "validating"]
            /\ UNCHANGED <<pc, response, fileBuffers, optimizerCalls>>
       ELSE ValidationSettled(i, fallbackValidateImage(req.files[i].buffer))
    /\ UNCHANGED <<processVars, storeVars, req, isServerless, optimizedResults,
                   stask, saved, simpleVars, bufferedFiles, callVars,
                   mkdirCalls, auxVars>>

ImagesValidated(i) ==
    /\ i \in 1..Len(vtask)
    /\ vtask[i] = "validating"
    /\ ValidationSettled(i, validateImage(req.files[i].buffer))
    /\ UNCHANGED <<processVars, storeVars, req, isServerless, optimizedResults,
                   stask, saved, simpleVars, readVars, callVars,
                   used, mkdirCalls, auxVars>>

\* The optimizer settles; then every save callback runs up to its first await.
ImagesOptimized(outcome) ==
    /\ pc = "i_optimizing"
    /\ used' = [used EXCEPT !.optimizer = optimizerOf(probe)]
    /\ IF optimizerOf(probe) = "rich" /\ outcome = 0
       THEN /\ response' = ImagesFailure(Message("optimization failed", <<>>))
            /\ pc' = "done"
            /\ UNCHANGED <<optimizedResults, stask, saved, uploadCalls>>
       ELSE LET results ==
                    IF optimizerOf(probe) = "rich"
                    THEN processImagesInParallel(
                             fileBuffers,
                             getOptimizationOptions(optimizationLevelOf(req)),
                             outcome)
                    ELSE fallbackProcessImages(fileBuffers)
            IN  /\ optimizedResults' = results
                /\ stask' = [f \in 1..Len(results) |->
                                [v \in 1..Len(results[f]) |-> "pending"]]
                /\ saved' = [f \in 1..Len(results) |->
                                [v \in 1..Len(results[f]) |-> NoPath]]
                /\ uploadCalls' = IF isServerless
                                  THEN uploadCalls + Len(flat(results))
                                  ELSE uploadCalls
                /\ pc' = "i_saving"
                /\ response' = response
    /\ UNCHANGED <<processVars, dirs, disk, cloud, uploadFailures, stamp, req,
                   isServerless, vtask, fileBuffers, optimizerCalls, simpleVars,
                   readVars, callVars, mkdirCalls, auxVars>>

\* a failed save that removes what the request has stored so far
storeAfterSaveCompensated(store, ok, imagePath) ==
    IF ok THEN store \cup {imagePath} ELSE {}

\* the store a settled save task leaves: the variant is added when the save
\* succeeded; the callback's catch block only logs and rethrows
storeAfterSave(store, ok, imagePath) ==
    IF ok THEN store \cup {imagePath} ELSE store

\* A save task settles: uploadWithFallback resolves or throws (ephemeral
\* context), writeFile resolves (persistent context).
ImagesSaveSettled(f, v, ok) ==
    /\ f \in 1..Len(stask)
    /\ v \in 1..Len(stask[f])
    /\ stask[f][v] = "pending"
    /\ isServerless \/ ok
    /\ LET image == optimizedResults[f][v]
           imagePath == IF isServerless
                        THEN cloudUrl(uploadTypeOf(req), image.filename)
                        ELSE localPath(uploadTypeOf(req), image.filename)
           result == saveTaskResult(ok, imagePath)
           st == [stask EXCEPT ![f][v] = result.state]
           sv == IF result.state = "ok"
                 THEN storeResult(saved, f, v, result.path) ELSE saved
       IN  /\ stask' = st
           /\ saved' = sv
           /\ disk' = IF isServerless THEN disk
                      ELSE storeAfterSave(disk, ok, imagePath)
           /\ cloud' = IF isServerless THEN storeAfterSave(cloud, ok, imagePath)
                       ELSE cloud
           /\ uploadFailures' = IF ok THEN uploadFailures
                                 ELSE uploadFailures \cup {<<f, v>>}
           /\ IF pc # "i_saving"
              THEN UNCHANGED <<pc, response>>
              ELSE IF result.state = "failed"
              THEN /\ response' = ImagesFailure(
                                      Message("upload failed", image.filename))
                   /\ pc' = "done"
              ELSE IF allSaved(st)
              THEN /\ response' = ImagesSuccess(req.files, fileBuffers,
                                                optimizedResults, sv)
                   /\ pc' = "done"
              ELSE UNCHANGED <<pc, response>>
    /\ UNCHANGED <<processVars, dirs, uploadCalls, stamp, req, isServerless, vtask,
                   fileBuffers, optimizerCalls, optimizedResults, simpleVars,
                   readVars, callVars,
                   used, mkdirCalls, auxVars>>

(* ---------------------------------------------------------------------- *)
(* Simple route: POST                                                      *)
(* ---------------------------------------------------------------------- *)
\* generateUniqueFileName (lib/image-utils, not part of the sources at hand):
\* a fresh stamp combined with the original name.
generateUniqueFileName(filename, n) == <<ToString(n)>> \o filename

\* a failure body that also lists the references pushed so far
SimpleFailureWithImages(message) ==
    Resp(500, {"success", "error", "message", "images"}, FALSE, "Upload failed",
         message, uploadedImages, NoStats)

SimpleFailure(message) ==
    Resp(500, {"success", "error", "message"}, FALSE, "Upload failed", message,
         <<>>, NoStats)

SimpleSuccess(images) ==
    Resp(200, {"success", "images", "message"}, TRUE, "",
         Message("Successfully processed", <<>>), images, NoStats)

\* files.length > maxFiles
simpleTooManyFiles(n) == n > simpleMaxFiles

SimplePOST(r) ==
    /\ pc = "idle"
    /\ r.route = "simple"
    /\ req' = r
    /\ IF Len(r.files) = 0
       THEN /\ response' = Resp(400, {"error"}, FALSE, "No files uploaded",
                                NoMessage, <<>>, NoStats)
            /\ pc' = "done"
            /\ UNCHANGED <<idx, bufferedFiles>>
       ELSE IF simpleTooManyFiles(Len(r.files))
       THEN /\ response' = Resp(400, {"error"}, FALSE, "Too many files",
                                NoMessage, <<>>, NoStats)
            /\ pc' = "done"
            /\ UNCHANGED <<idx, bufferedFiles>>
       ELSE /\ idx' = 1
            /\ bufferedFiles' = {1}
            /\ pc' = "s_read"
            /\ response' = response
    /\ UNCHANGED <<processVars, storeVars, imagesVars, uniqueFilename,
                   uploadedImages, validatedFiles, callVars,
                   used, mkdirCalls, auxVars>>

\* The end of one iteration of `for (const file of files)`: the next file's
\* bytes are requested, or the loop ends and the success response is returned.
SimpleNextFile(images) ==
    /\ uploadedImages' = images
    /\ IF idx = Len(req.files)
       THEN /\ response' = SimpleSuccess(images)
            /\ pc' = "done"
            /\ UNCHANGED <<idx, bufferedFiles>>
       ELSE /\ idx' = idx + 1
            /\ bufferedFiles' = bufferedFiles \cup {idx + 1}
            /\ pc' = "s_read"
            /\ response' = response

\* file.arrayBuffer() resolves: validate, name, choose the storage
SimpleFileRead ==
    /\ pc = "s_read"
    /\ validatedFiles' = validatedFiles \cup {idx}
    /\ LET file == req.files[idx]
           validation == validateImageFile(file.buffer, file.name)
       IN  IF ~validation.isValid
           THEN /\ response' = SimpleFailure(Message(validation.error, file.name))
                /\ pc' = "done"
                /\ UNCHANGED <<stamp, uniqueFilename, uploadCalls, uploadedImages,
                               idx, bufferedFiles>>
           ELSE /\ stamp' = stamp + 1
                /\ uniqueFilename' = generateUniqueFileName(file.name, stamp + 1)
                /\ IF simpleIsServerless(env)
                   THEN IF isCloudinaryConfigured(creds)
                        THEN /\ uploadCalls' = uploadCalls + 1
                             /\ pc' = "s_upload"
                             /\ UNCHANGED <<response, uploadedImages, idx,
                                            bufferedFiles>>
                        ELSE /\ SimpleNextFile(Append(uploadedImages, Placeholder))
                             /\ UNCHANGED uploadCalls
                   ELSE /\ pc' = IF uploadTypeOf(req) \in dirs
                                 THEN "s_write" ELSE "s_mkdir"
                        /\ UNCHANGED <<response, uploadCalls, uploadedImages, idx,
                                       bufferedFiles>>
    /\ UNCHANGED <<processVars, dirs, disk, cloud, uploadFailures, req, imagesVars,
                   callVars,
                   used, mkdirCalls, auxVars>>

\* a Cloudinary error left to reach the handler's catch block
simpleUploadResultFailClosed(ok, url) ==
    IF ok THEN [thrown |-> FALSE, ref |-> url] ELSE [thrown |-> TRUE, ref |-> NoPath]

\* try { uploadedImages.push(await uploadToCloudinary(...)) }
\* catch (cloudinaryError) { uploadedImages.push('/placeholder-image.svg') }
simpleUploadResult(ok, url) ==
    [thrown |-> FALSE, ref |-> IF ok THEN url ELSE Placeholder]

\* await uploadToCloudinary(buffer, uniqueFilename, uploadType) settles
SimpleUploadSettled(ok) ==
    /\ pc = "s_upload"
    /\ LET url == secureUrl(uploadTypeOf(req), uniqueFilename)
           result == simpleUploadResult(ok, url)
       IN  /\ cloud' = IF ok THEN cloud \cup {url} ELSE cloud
           /\ uploadFailures' = IF ok THEN uploadFailures
                                 ELSE uploadFailures \cup {<<idx>>}
           /\ IF result.thrown
              THEN /\ response' = SimpleFailure(
                                      Message("Cloudinary upload error", <<>>))
                   /\ pc' = "done"
                   /\ UNCHANGED <<uploadedImages, idx, bufferedFiles>>
              ELSE SimpleNextFile(Append(uploadedImages, result.ref))
    /\ UNCHANGED <<processVars, dirs, disk, uploadCalls, stamp, req, imagesVars,
                   uniqueFilename, validatedFiles, callVars,
                   used, mkdirCalls, auxVars>>

\* await mkdir(uploadDir, { recursive: true })
SimpleMkdir ==
    /\ pc = "s_mkdir"
    /\ mkdirCalls' = mkdirCalls + 1
    /\ LET made == mkdir(dirs, uploadTypeOf(req))
       IN  /\ dirs' = made.dirs
           /\ IF made.thrown
              THEN /\ response' = SimpleFailure(Message("EEXIST", <<>>))
                   /\ pc' = "done"
              ELSE /\ response' = response
                   /\ pc' = "s_write"
    /\ UNCHANGED <<processVars, disk, cloud, uploadCalls, uploadFailures, stamp,
                   req, imagesVars, simpleVars, readVars, callVars, used, auxVars>>

\* await writeFile(filePath, buffer)
SimpleWritten ==
    /\ pc = "s_write"
    /\ LET imagePath == localPath(uploadTypeOf(req), uniqueFilename)
       IN  /\ disk' = disk \cup {imagePath}
           /\ SimpleNextFile(Append(uploadedImages, imagePath))
    /\ UNCHANGED <<processVars, dirs, cloud, uploadCalls, uploadFailures, stamp,
                   req, imagesVars, uniqueFilename, validatedFiles, callVars,
                   used, mkdirCalls, auxVars>>

(* ---------------------------------------------------------------------- *)
(* Inputs                                                                  *)
(* ---------------------------------------------------------------------- *)
PngHead == <<137, 80, 78, 71>>
JpegHead == <<255, 216, 255, 224>>
GifHead == <<71, 73, 70, 56>>
ZeroHead == <<0, 0, 0, 0>>

fileGood == File(<<"a", "png">>, PngHead, 1000)
fileEdge == File(<<"b", "JPG">>, JpegHead, maxFileSize)
fileBig == File(<<"c", "png">>, PngHead, maxFileSize + 1)
fileExe == File(<<"d", "exe">>, PngHead, 1000)
fileBad == File(<<"e", "png">>, ZeroHead, 1000)
fileNoDot == File(<<"png">>, GifHead, 1000)
fileEmpty == File(<<"f", "png">>, <<>>, 0)
Files == {fileGood, fileEdge, fileBig, fileExe, fileBad, fileNoDot, fileEmpty}

\* batches of up to MaxBatch files, at most one of them other than fileGood
Batches ==
    {b \in UNION {[1..n -> Files] : n \in 0..MaxBatch} :
        Cardinality({i \in 1..Len(b) : b[i] # fileGood}) <= 1}

\* encoder output lengths of the rich optimizer
OutSizes == {400, 404, 1003}

FullCreds == [cloudName |-> <<"d", "e", "m", "o", "1">>,
              apiKey |-> <<"k", "e", "y", "4", "2">>,
              apiSecret |-> <<"s", "3", "c">>]
CredSets == {FullCreds, [FullCreds EXCEPT !.cloudName = <<>>],
             [FullCreds EXCEPT !.apiKey = <<>>], [FullCreds EXCEPT !.apiSecret = <<>>]}

Envs == {{}, {"VERCEL"}, {"AWS_LAMBDA_FUNCTION_NAME"}, {"FUNCTION_NAME"}}

\* the deployments the handlers are explored in
Deployments ==
    {d \in [probe : {"rich", "fallback"}, env : Envs, creds : CredSets,
            dirs : {{}, {"products"}}] :
        /\ d.creds # FullCreds => d.probe = "fallback" /\ d.dirs = {}
        /\ d.dirs # {} => ~simpleIsServerless(d.env)}

MaxSaveTasks == 6

\* the save tasks a request of the images route starts under the rich strategy
saveTasksOf(r) ==
    Len(r.files) * Len(getOptimizationOptions(optimizationLevelOf(r)).sizes)

Requests ==
    {r \in {Request("images", b, t, o, c) :
                b \in Batches, t \in {""}, o \in {"", "fast"},
                c \in {NoContentLength}} :
        saveTasksOf(r) <= MaxSaveTasks}
    \cup {Request("simple", b, t, "", NoContentLength) :
        b \in Batches, t \in {"", "banners"}}

(* ---------------------------------------------------------------------- *)
(* Specification                                                           *)
(* ---------------------------------------------------------------------- *)
NoPeer == [pc |-> "none", route |-> "", type |-> "", path |-> <<>>]

\* no request has been served and none overlaps
InitProcess ==
    /\ mkdirCalls = 0
    /\ peer = NoPeer
    /\ served = 0

InitRequest ==
    /\ disk = {}
    /\ cloud = {}
    /\ uploadCalls = 0
    /\ uploadFailures = {}
    /\ stamp = 0
    /\ pc = "idle"
    /\ req = NoRequest
    /\ isServerless = FALSE
    /\ vtask = <<>>
    /\ bufferedFiles = {}
    /\ validatedFiles = {}
    /\ fileBuffers = <<>>
    /\ optimizerCalls = 0
    /\ optimizedResults = <<>>
    /\ stask = <<>>
    /\ saved = <<>>
    /\ idx = 0
    /\ uniqueFilename = <<>>
    /\ uploadedImages = <<>>
    /\ response = NoResponse
    /\ used = NoUse

Init ==
    /\ \E d \in Deployments :
          probe = d.probe /\ env = d.env /\ creds = d.creds /\ dirs = d.dirs
    /\ InitRequest
    /\ InitProcess
    /\ callArg = <<>>
    /\ callRet = <<>>

Handlers(requests) ==
    \/ \E r \in requests : ImagesPOST(r)
    \/ ImagesMkdir
    \/ \E i \in 1..Len(vtask) : ImagesBufferReady(i)
    \/ \E i \in 1..Len(vtask) : ImagesValidated(i)
    \/ \E outcome \in (IF probe = "rich" THEN {0} \cup OutSizes ELSE {0}) :
          ImagesOptimized(outcome)
    \/ \E f \in 1..Len(stask) : \E v \in 1..Len(stask[f]) : \E ok \in BOOLEAN :
          ImagesSaveSettled(f, v, ok)
    \/ \E r \in requests : SimplePOST(r)
    \/ SimpleFileRead
    \/ \E ok \in BOOLEAN : SimpleUploadSettled(ok)
    \/ SimpleMkdir
    \/ SimpleWritten

Next == Handlers(Requests)

Spec == Init /\ [][Next]_vars

(* ---------------------------------------------------------------------- *)
(* Save tasks of the images route, each resumed once its storage call has  *)
(* settled                                                                 *)
(* ---------------------------------------------------------------------- *)
SaveDeployments ==
    {d \in Deployments : d.creds = FullCreds /\ d.env \in {{}, {"VERCEL"}}}

SaveRequests ==
    {r \in Requests :
        r.route = "images" /\ \A i \in 1..Len(r.files) : r.files[i] = fileGood}

InitSave ==
    /\ \E d \in SaveDeployments :
          probe = d.probe /\ env = d.env /\ creds = d.creds /\ dirs = d.dirs
    /\ InitRequest
    /\ InitProcess
    /\ callArg = <<>>
    /\ callRet = <<>>

\* some pending save task's storage call settles and its callback resumes
SaveSettles ==
    \E f \in 1..Len(stask) : \E v \in 1..Len(stask[f]) : \E ok \in BOOLEAN :
        ImagesSaveSettled(f, v, ok)

NextSave ==
    \/ \E r \in SaveRequests : ImagesPOST(r)
    \/ ImagesMkdir
    \/ \E i \in 1..Len(vtask) : ImagesBufferReady(i)
    \/ \E i \in 1..Len(vtask) : ImagesValidated(i)
    \/ \E outcome \in (IF probe = "rich" THEN {0} \cup OutSizes ELSE {0}) :
          ImagesOptimized(outcome)
    \/ SaveSettles

SpecSave == InitSave /\ [][NextSave]_vars /\ WF_vars(SaveSettles)

(* ---------------------------------------------------------------------- *)
(* Batches around the file-count limit                                     *)
(* ---------------------------------------------------------------------- *)
MaxCount == 11

\* Content-Length of a multipart body: the parts and their framing
PartOverhead == 128
bodyLength(files) ==
    Sum([i \in 1..Len(files) |-> files[i].buffer.length + PartOverhead])

uniformBatch(file, n) == [i \in 1..n |-> file]

UniformBatches ==
    {uniformBatch(file, n) : file \in {fileGood, fileEdge}, n \in 0..MaxCount}

BatchRequests ==
    UNION {{Request("images", b, "", "fast", c) :
               c \in {NoContentLength, bodyLength(b)}} : b \in UniformBatches}
    \cup {Request("simple", b, "", "", NoContentLength) : b \in UniformBatches}

\* a persistent-context deployment without the rich optimizer
InitBatch ==
    /\ probe = "fallback"
    /\ env = {}
    /\ creds = FullCreds
    /\ dirs = {}
    /\ InitRequest
    /\ InitProcess
    /\ callArg = <<>>
    /\ callRet = <<>>

\* the steps such a deployment can take
NextBatch ==
    \/ \E r \in BatchRequests : ImagesPOST(r)
    \/ ImagesMkdir
    \/ \E i \in 1..Len(vtask) : ImagesBufferReady(i)
    \/ ImagesOptimized(0)
    \/ \E f \in 1..Len(stask) : ImagesSaveSettled(f, 1, TRUE)
    \/ \E r \in BatchRequests : SimplePOST(r)
    \/ SimpleFileRead
    \/ SimpleMkdir
    \/ SimpleWritten

SpecBatch == InitBatch /\ [][NextBatch]_vars

(* ---------------------------------------------------------------------- *)
(* Two overlapping requests in persistent context                          *)
(* ---------------------------------------------------------------------- *)
\* The second request carries the one valid file fileGood and is followed
\* through the steps that touch what the two requests share: the upload
\* directory, the name stamps and the disk.  The strategy is the fallback one.

\* the name the second request writes its file under
peerFilename(route, n) ==
    IF route = "simple" THEN generateUniqueFileName(fileGood.name, n)
                        ELSE fallbackProcessImages(
                                 fileBuffersOf(<<fileGood>>))[1][1].filename

\* the second request arrives, is given its name and looks for its directory:
\* if (!existsSync(uploadDir))
PeerPOST(route, type) ==
    /\ peer.pc = "none"
    /\ pc # "done"
    /\ IF route = "simple" THEN ~simpleIsServerless(env) ELSE ~imagesIsServerless(env)
    /\ stamp' = IF route = "simple" THEN stamp + 1 ELSE stamp
    /\ peer' = [pc |-> IF type \in dirs THEN "write" ELSE "mkdir",
                route |-> route, type |-> type,
                path |-> localPath(type, peerFilename(route, stamp + 1))]
    /\ UNCHANGED <<processVars, dirs, disk, cloud, uploadCalls, uploadFailures, pc,
                   req, imagesVars, simpleVars, readVars, response, callVars,
                   used, mkdirCalls, served>>

\* await mkdir(uploadDir, { recursive: true })
PeerMkdir ==
    /\ peer.pc = "mkdir"
    /\ mkdirCalls' = mkdirCalls + 1
    /\ LET made == mkdir(dirs, peer.type)
       IN  /\ dirs' = made.dirs
           /\ peer' = [peer EXCEPT !.pc = IF made.thrown THEN "failed" ELSE "write"]
    /\ UNCHANGED <<processVars, disk, cloud, uploadCalls, uploadFailures, stamp, pc,
                   req, imagesVars, simpleVars, readVars, response, callVars,
                   used, served>>

\* await writeFile(filePath, buffer)
PeerWritten ==
    /\ peer.pc = "write"
    /\ disk' = disk \cup {peer.path}
    /\ peer' = [peer EXCEPT !.pc = "done"]
    /\ UNCHANGED <<processVars, dirs, cloud, uploadCalls, uploadFailures, stamp, pc,
                   req, imagesVars, simpleVars, readVars, response, callVars,
                   used, mkdirCalls, served>>

OverlapBatches ==
    {b \in Batches : \A i \in 1..Len(b) : b[i] \in {fileGood, fileEdge}}

OverlapRequests ==
    {Request("images", b, t, "", NoContentLength) :
        b \in OverlapBatches, t \in {"", "banners"}}
    \cup {Request("simple", b, t, "", NoContentLength) :
        b \in OverlapBatches, t \in {"", "banners"}}

InitOverlap ==
    /\ probe = "fallback"
    /\ env = {}
    /\ creds = FullCreds
    /\ dirs \in {{}, {"banners"}}
    /\ InitRequest
    /\ InitProcess
    /\ callArg = <<>>
    /\ callRet = <<>>

NextOverlap ==
    \/ \E r \in OverlapRequests : ImagesPOST(r)
    \/ ImagesMkdir
    \/ \E i \in 1..Len(vtask) : ImagesBufferReady(i)
    \/ ImagesOptimized(0)
    \/ \E f \in 1..Len(stask) : ImagesSaveSettled(f, 1, TRUE)
    \/ \E r \in OverlapRequests : SimplePOST(r)
    \/ SimpleFileRead
    \/ SimpleMkdir
    \/ SimpleWritten
    \/ \E route \in {"images", "simple"} : \E type \in {"products", "banners"} :
          PeerPOST(route, type)
    \/ PeerMkdir
    \/ PeerWritten

SpecOverlap == InitOverlap /\ [][NextOverlap]_vars

(* ---------------------------------------------------------------------- *)
(* One process serving requests one after the other                        *)
(* ---------------------------------------------------------------------- *)
MaxRequests == 2

\* The handler has answered; the process takes the next request.  The module
\* state, the directories, the disk and the cloud stay as the request left them.
NextRequest ==
    /\ pc = "done"
    /\ served < MaxRequests
    /\ served' = served + 1
    /\ pc' = "idle"
    /\ req' = NoRequest
    /\ response' = NoResponse
    /\ isServerless' = FALSE
    /\ vtask' = <<>>
    /\ bufferedFiles' = {}
    /\ validatedFiles' = {}
    /\ fileBuffers' = <<>>
    /\ optimizerCalls' = 0
    /\ optimizedResults' = <<>>
    /\ stask' = <<>>
    /\ saved' = <<>>
    /\ idx' = 0
    /\ uniqueFilename' = <<>>
    /\ uploadedImages' = <<>>
    /\ uploadFailures' = {}
    /\ used' = NoUse
    /\ UNCHANGED <<processVars, dirs, disk, cloud, uploadCalls, stamp, callVars,
                   mkdirCalls, peer>>

ProcessRequests ==
    {Request("images", <<file>>, "", "fast", NoContentLength) :
        file \in {fileGood, fileBad}}
    \cup {Request("simple", <<fileGood>>, "", "", NoContentLength)}

NextProcess ==
    \/ Handlers(ProcessRequests)
    \/ NextRequest

SpecProcess == Init /\ [][NextProcess]_vars

(* ---------------------------------------------------------------------- *)
(* Environment markers that change while a request is served               *)
(* ---------------------------------------------------------------------- *)
\* process.env is process-wide and mutable: a marker is set or deleted
EnvChanges(e) ==
    /\ pc \notin {"idle", "done"}
    /\ e # env
    /\ env' = e
    /\ UNCHANGED <<probe, creds, storeVars, pc, req, imagesVars, simpleVars,
                   readVars, response, callVars, used, mkdirCalls, auxVars>>

EnvRequests ==
    {Request("images", <<fileGood, fileGood>>, "", "fast", NoContentLength),
     Request("simple", <<fileGood, fileGood>>, "", "", NoContentLength)}

NextEnv ==
    \/ Handlers(EnvRequests)
    \/ \E e \in Envs : EnvChanges(e)

SpecEnv == Init /\ [][NextEnv]_vars

(* ---------------------------------------------------------------------- *)
(* The images route with every optimization level                          *)
(* ---------------------------------------------------------------------- *)
\* formData.get('optimization'): absent (""), the three levels, an unknown one
Levels == {"", "fast", "balanced", "quality", "turbo"}

LevelRequests ==
    {Request("images", <<fileGood>>, t, o, NoContentLength) :
        t \in {"", "banners"}, o \in Levels}

NextLevels ==
    \/ \E r \in LevelRequests : ImagesPOST(r)
    \/ ImagesMkdir
    \/ \E i \in 1..Len(vtask) : ImagesBufferReady(i)
    \/ \E i \in 1..Len(vtask) : ImagesValidated(i)
    \/ \E outcome \in (IF probe = "rich" THEN {0} \cup OutSizes ELSE {0}) :
          ImagesOptimized(outcome)
    \/ \E f \in 1..Len(stask) : \E v \in 1..Len(stask[f]) : \E ok \in BOOLEAN :
          ImagesSaveSettled(f, v, ok)

SpecLevels == Init /\ [][NextLevels]_vars

(* ---------------------------------------------------------------------- *)
(* The fallback strategy on its own                                        *)
(* ---------------------------------------------------------------------- *)
MaxFallbackBatch == 2

FallbackNames ==
    {<<"a", "png">>, <<"b", "JPG">>, <<"Photo">>, <<"a", "">>, <<"x", "tar", "gz">>}

FallbackBuffers == {Buf(PngHead, 1000), Buf(ZeroHead, 4), Buf(<<>>, 0)}

FallbackInputs ==
    UNION {[1..n -> [buffer : FallbackBuffers, filename : FallbackNames]] :
              n \in 0..MaxFallbackBatch}

InitFallback ==
    /\ probe = "fallback"
    /\ env = {}
    /\ creds = FullCreds
    /\ dirs = {}
    /\ InitRequest
    /\ InitProcess
    /\ callArg \in FallbackInputs
    /\ callRet = <<>>

\* fallbackProcessImages(fileBuffers) resolves
FallbackProcess ==
    /\ callRet = <<>>
    /\ callRet' = [resolved |-> fallbackProcessImages(callArg)]
    /\ UNCHANGED <<processVars, storeVars, pc, req, imagesVars, simpleVars,
                   readVars, response, callArg, used, mkdirCalls, auxVars>>

NextFallback == FallbackProcess

SpecFallback == InitFallback /\ [][NextFallback]_vars

(* ---------------------------------------------------------------------- *)
(* The validators on their own                                             *)
(* ---------------------------------------------------------------------- *)
\* the byte values the signatures are made of, and a byte of none of them
SignatureBytes == {0, 255, 216, 137, 80, 78, 71, 73, 70}

\* buffers shorter than a WEBP header: every sequence of signature bytes
ShortBuffers ==
    {Buf(head, Len(head)) :
        head \in UNION {[1..n -> SignatureBytes] : n \in 0..MaxHead}}

\* twelve-byte buffers: a container tag, four length bytes, a format tag
HeaderBuffers ==
    {Buf(tag \o <<0, 0, 0, 0>> \o fourcc, 12) :
        tag \in {<<82, 73, 70, 70>>, ZeroHead, PngHead, <<82, 73, 70, 0>>},
        fourcc \in {<<87, 69, 66, 80>>, <<87, 69, 0, 0>>, <<87, 69, 66, 0>>,
                    ZeroHead}}

ValidatorNames == {<<"a", "png">>, <<"a", "JPG">>, <<"a", "exe">>, <<"png">>}

InitValidator ==
    /\ probe = "fallback"
    /\ env = {}
    /\ creds = FullCreds
    /\ dirs = {}
    /\ InitRequest
    /\ InitProcess
    /\ \E buffer \in ShortBuffers \cup HeaderBuffers : \E name \in ValidatorNames :
          callArg = [buffer |-> buffer, filename |-> name]
    /\ callRet = <<>>

\* both validators applied to the buffer
Validate ==
    /\ callRet = <<>>
    /\ callRet' = [images |-> fallbackValidateImage(callArg.buffer),
                   simple |-> validateImageFile(callArg.buffer, callArg.filename)]
    /\ UNCHANGED <<processVars, storeVars, pc, req, imagesVars, simpleVars,
                   readVars, response, callArg,
                   used, mkdirCalls, auxVars>>

NextValidator == Validate

SpecValidator == InitValidator /\ [][NextValidator]_vars

(* ---------------------------------------------------------------------- *)
(* Simple route: GET, answered by two processes that differ in one         *)
(* credential                                                              *)
(* ---------------------------------------------------------------------- *)
\* the body GET returns in environment e with credentials c at time now
GET(e, c, now) ==
    LET cloudinaryStatus == getCloudinaryStatus(c)
    IN  [message |-> "Simple image upload endpoint (no Sharp dependency)",
         methods |-> <<"POST">>,
         maxFileSize |-> "20MB",
         maxFiles |-> 10,
         environment |-> IF simpleIsServerless(e) THEN "serverless" ELSE "local",
         storage |-> [cloudinary |-> cloudinaryStatus,
                      enabled |-> cloudinaryStatus.configured],
         status |-> IF cloudinaryStatus.configured
                    THEN "ready" ELSE "configuration_needed",
         timestamp |-> now]

MaxCredLen == 5
CredChars == {"a", "b"}

\* the values of one credential: every string of up to MaxCredLen characters
CredValues == UNION {[1..n -> CredChars] : n \in 0..MaxCredLen}

\* the fields in which two credential records differ
differingFields(a, b) ==
    {k \in {"cloudName", "apiKey", "apiSecret"} : a[k] # b[k]}

\* an unset credential and a one-character one
ShortValues == {<<>>, <<"a">>}

\* credentials of which one ranges over every value
CredInputs ==
    [cloudName : CredValues, apiKey : ShortValues, apiSecret : ShortValues]
    \cup [cloudName : ShortValues, apiKey : CredValues, apiSecret : ShortValues]
    \cup [cloudName : ShortValues, apiKey : ShortValues, apiSecret : CredValues]

\* the credentials of the process and, in callArg, those of a second process
\* that differ from them in at most one variable
InitStatus ==
    /\ probe = "fallback"
    /\ env = {}
    /\ creds \in CredInputs
    /\ dirs = {}
    /\ InitRequest
    /\ InitProcess
    /\ \E other \in CredInputs :
          /\ Cardinality(differingFields(creds, other)) <= 1
          /\ callArg = [creds |-> other]
    /\ callRet = <<>>

\* both processes answer GET, the second one a moment later
StatusGET(now) ==
    /\ callRet = <<>>
    /\ callRet' = [here |-> GET(env, creds, now),
                   there |-> GET(env, callArg.creds, now + 1)]
    /\ UNCHANGED <<processVars, storeVars, pc, req, imagesVars, simpleVars,
                   readVars, response, callArg,
                   used, mkdirCalls, auxVars>>

NextStatus == \E now \in {1, 2} : StatusGET(now)

SpecStatus == InitStatus /\ [][NextStatus]_vars

(* ====================================================================== *)
(* Claims                                                                  *)
(* ====================================================================== *)
\* no file of the request was read, validated, optimized or persisted
NothingDone ==
    /\ bufferedFiles = {} /\ validatedFiles = {} /\ vtask = <<>>
    /\ optimizerCalls = 0 /\ stask = <<>> /\ uploadedImages = <<>>
    /\ disk = {} /\ cloud = {} /\ uploadCalls = 0

BatchSizeError == response.status = 400 /\ response.error = "Too many files"

\* the request entered per-file validation (the images route may first be
\* creating the upload directory)
EnteredValidation ==
    /\ response.status \notin {400, 413}
    /\ pc = "i_mkdir" \/ bufferedFiles # {}

\* C1 as stated: in both routes a batch of 10 files passes the batch-size check
\* and enters per-file validation, and a batch of 11 or more files is answered
\* with the batch-size error (HTTP 400) before any file is buffered, validated,
\* optimized or persisted.
C1_AsStated ==
    pc # "idle" =>
        /\ Len(req.files) = 10 => EnteredValidation
        /\ Len(req.files) >= 11 => BatchSizeError /\ NothingDone

\* the images route answers 413 before it looks at the files
AnsweredByPreCheck ==
    /\ req.route = "images"
    /\ req.contentLength # NoContentLength
    /\ req.contentLength > 10 * 20971520

\* C1 (amended): a batch of 11 or more files is answered before any file is
\* buffered, validated, optimized or persisted, and no directory is created:
\* with HTTP 413 when the images route's Content-Length pre-check rejects the
\* request, with the batch-size error (HTTP 400) otherwise.  A batch of 10
\* files that the pre-check lets through passes the batch-size check and
\* enters per-file validation.
C1_BatchSizeBoundary ==
    pc # "idle" =>
        /\ Len(req.files) = 10 /\ ~AnsweredByPreCheck => EnteredValidation
        /\ Len(req.files) >= 11 =>
              /\ NothingDone /\ dirs = {} /\ pc = "done"
              /\ IF AnsweredByPreCheck THEN response.status = 413
                                        ELSE BatchSizeError

\* a batch of 10 files went through the images route to a success response
C1_Witness ==
    /\ req.route = "images" /\ Len(req.files) = 10
    /\ response.status = 200 /\ Len(response.images) = 10

\* the validator the images route applies to a buffer
imagesValidatorSays(buffer) ==
    IF probe = "rich" THEN validateImage(buffer).isValid
                      ELSE fallbackValidateImage(buffer).isValid

\* a file the images route must refuse: over the size limit, or not an image
\* for the validator in use
FailsValidation(file) ==
    file.buffer.length > 20971520 \/ ~imagesValidatorSays(file.buffer)

\* C2: in the images route, once a file of the batch has failed validation the
\* request is answered with the failure response and the optimizer is never
\* invoked; the optimizer is invoked only when every file of the batch has
\* validated successfully (so never for a batch holding a file that fails).
C2_NoPartialBatch ==
    req.route = "images" =>
        /\ (\E i \in 1..Len(vtask) : vtask[i] = "rejected") =>
              /\ optimizerCalls = 0 /\ optimizedResults = <<>> /\ stask = <<>>
              /\ response.status = 500 /\ ~response.success /\ pc = "done"
        /\ optimizerCalls > 0 =>
              /\ \A i \in 1..Len(req.files) : vtask[i] = "ok"
              /\ \A i \in 1..Len(req.files) : ~FailsValidation(req.files[i])

\* one file was refused after another file of the same batch had validated
C2_Witness ==
    /\ req.route = "images" /\ optimizerCalls = 0 /\ response.status = 500
    /\ \E i, j \in 1..Len(vtask) :
          /\ vtask[i] = "rejected" /\ FailsValidation(req.files[i])
          /\ vtask[j] = "ok"

\* the name of variant v of input file f
expectedName(f, v) ==
    IF probe = "fallback"
    THEN req.files[f].name
    ELSE Stem(req.files[f].name)
           \o <<getOptimizationOptions(optimizationLevelOf(req)).sizes[v].suffix,
                "webp">>

\* the reference of variant v of input file f
expectedRef(f, v) ==
    IF isServerless THEN <<"https:", uploadTypeOf(req)>> \o expectedName(f, v)
                    ELSE <<"uploads", uploadTypeOf(req)>> \o expectedName(f, v)

variantsPerFile ==
    IF probe = "fallback" THEN 1
    ELSE Len(getOptimizationOptions(optimizationLevelOf(req)).sizes)

\* C3: in the images route, whatever the order in which the save tasks
\* complete, the reference of variant v of file f is kept at index (f, v), and
\* the images list of a success response holds it at position
\* (f - 1) * variantsPerFile + v: input-file order, then the order of the sizes.
C3_OutputOrder ==
    req.route = "images" =>
        /\ \A f \in 1..Len(stask) : \A v \in 1..Len(stask[f]) :
              stask[f][v] = "ok" => saved[f][v] = expectedRef(f, v)
        /\ response.status = 200 =>
              /\ Len(response.images) = Len(req.files) * variantsPerFile
              /\ \A f \in 1..Len(req.files) : \A v \in 1..variantsPerFile :
                    response.images[(f - 1) * variantsPerFile + v] = expectedRef(f, v)

\* the last variant of the second file is saved while the first variant of the
\* first file is still being saved
C3_Witness ==
    /\ req.route = "images" /\ pc = "i_saving" /\ Len(stask) = 2
    /\ variantsPerFile = 3
    /\ stask[1][1] = "pending" /\ stask[2][3] = "ok"
    /\ saved[2][3] = expectedRef(2, 3) /\ saved[2][3] # expectedRef(1, 1)

\* the variants the optimizer produced for the request
producedVariants ==
    Sum([f \in 1..Len(optimizedResults) |-> Len(optimizedResults[f])])

\* C4: every success response of the images route lists as many references
\* as the optimizer produced variants, over all input files, and
\* stats.optimizedVariants is that number.
C4_VariantCount ==
    req.route = "images" /\ response.status = 200 =>
        /\ Len(response.images) = producedVariants
        /\ response.stats.optimizedVariants = producedVariants
        /\ producedVariants = Len(req.files) * variantsPerFile

\* a success response for two files of three variants each
C4_Witness ==
    /\ req.route = "images" /\ response.status = 200
    /\ Len(req.files) = 2 /\ Len(response.images) = 6

\* C5: in the images route in ephemeral context, once the upload of one
\* variant has failed the request is answered with the failure response
\* (success false, HTTP 500) that carries no reference list, however many other
\* variants are uploaded.
C5_FailClosed ==
    req.route = "images" /\ isServerless /\ uploadFailures # {} =>
        /\ response.status = 500 /\ ~response.success
        /\ "images" \notin response.keys /\ response.images = <<>>
        /\ pc = "done"

\* one upload failed, the five others of the request succeeded
C5_Witness ==
    /\ req.route = "images" /\ isServerless /\ response.status = 500
    /\ Cardinality(uploadFailures) = 1
    /\ Cardinality(cloud) = 5

ValidationErrors == {"File too large", "Invalid file type", "Invalid image format"}

\* the reference the simple route pushes for file i once Cloudinary stored it
simpleUrl(i) ==
    <<"https:", "res.cloudinary.com", uploadTypeOf(req), ToString(i)>>

\* C6: in the simple route in ephemeral context with the credentials set, the
\* entry of file i is the placeholder exactly when its Cloudinary call failed
\* and file i's Cloudinary URL otherwise; a failed call never fails the
\* request (only a validation error does), and a success response lists one
\* entry per input file, in input order.
C6_FailOpen ==
    /\ req.route = "simple"
    /\ "VERCEL" \in env \/ "AWS_LAMBDA_FUNCTION_NAME" \in env
    /\ creds.cloudName # <<>> /\ creds.apiKey # <<>> /\ creds.apiSecret # <<>>
    =>
        /\ \A i \in 1..Len(uploadedImages) :
              uploadedImages[i] = IF <<i>> \in uploadFailures
                                  THEN <<"/placeholder-image.svg">>
                                  ELSE simpleUrl(i)
        /\ response.status = 500 => response.message.kind \in ValidationErrors
        /\ response.status = 200 =>
              /\ response.success
              /\ response.images = uploadedImages
              /\ Len(response.images) = Len(req.files)
        /\ pc = "done" /\ uploadFailures # {} /\ response.status # 200 =>
              \E i \in 1..Len(req.files) :
                 ~validateImageFile(req.files[i].buffer, req.files[i].name).isValid

\* a success response whose first entry is the placeholder of a failed call
\* and whose second entry is the URL of a call that succeeded
C6_Witness ==
    /\ req.route = "simple" /\ response.status = 200
    /\ uploadFailures = {<<1>>}
    /\ response.images = <<<<"/placeholder-image.svg">>, simpleUrl(2)>>

\* C7: in the simple route in ephemeral context with one of the three
\* credentials absent, no provider call is ever made, every reference is the
\* placeholder, and the request fails only for a validation error (it succeeds
\* with one placeholder per file otherwise).
C7_NoCallWithoutCredentials ==
    /\ req.route = "simple"
    /\ "VERCEL" \in env \/ "AWS_LAMBDA_FUNCTION_NAME" \in env
    /\ creds.cloudName = <<>> \/ creds.apiKey = <<>> \/ creds.apiSecret = <<>>
    =>
        /\ uploadCalls = 0 /\ cloud = {} /\ pc # "s_upload"
        /\ \A i \in 1..Len(uploadedImages) :
              uploadedImages[i] = <<"/placeholder-image.svg">>
        /\ response.status = 500 => response.message.kind \in ValidationErrors
        /\ response.status = 200 =>
              /\ response.success
              /\ response.images = [i \in 1..Len(req.files) |->
                                       <<"/placeholder-image.svg">>]

\* two files answered with two placeholders while only the API secret is absent
C7_Witness ==
    /\ req.route = "simple" /\ "VERCEL" \in env
    /\ creds.cloudName # <<>> /\ creds.apiKey # <<>> /\ creds.apiSecret = <<>>
    /\ response.status = 200 /\ Len(response.images) = 2 /\ uploadCalls = 0

\* the bytes of sig are the bytes of buffer from offset on
HasBytes(buffer, offset, sig) ==
    \A k \in 1..Len(sig) : At(buffer, offset + k - 1) = sig[k]

\* the buffer carries one of the four full signatures
HasSignature(buffer) ==
    \/ HasBytes(buffer, 0, <<255, 216, 255>>)
    \/ HasBytes(buffer, 0, <<137, 80, 78, 71>>)
    \/ HasBytes(buffer, 0, <<71, 73, 70>>)
    \/ HasBytes(buffer, 0, <<82, 73, 70, 70>>) /\ HasBytes(buffer, 8, <<87, 69, 66, 80>>)

\* C8: fallbackValidateImage, and validateImageFile for a name with an allowed
\* extension, accept a buffer exactly when it starts with the full JPEG, PNG
\* or GIF signature or is a WEBP (RIFF at offset 0 and WEBP at offset 8).
C8_FullSignatures ==
    callRet # <<>> =>
        /\ callRet.images.isValid = HasSignature(callArg.buffer)
        /\ callArg.filename \in {<<"a", "png">>, <<"a", "JPG">>} =>
              callRet.simple.isValid = HasSignature(callArg.buffer)

\* the extension of a name: its last segment when it has a dot, none otherwise
extensionOf(name) == IF Len(name) >= 2 THEN toLowerCase(name[Len(name)]) ELSE ""

\* a file validation has to refuse in the simple route
SimpleMustReject(file) ==
    \/ file.buffer.length > 20971520
    \/ extensionOf(file.name) \notin {"jpg", "jpeg", "png", "gif", "webp"}

\* C9: a file over the per-file limit is refused with a reason and never
\* persisted, a file of exactly the limit is not refused for its size, and in
\* the simple route a file whose lower-cased extension is not jpg, jpeg, png,
\* gif or webp is refused with a reason and never persisted.
C9_Rejections ==
    /\ req.route = "simple" =>
          /\ \A i \in 1..Len(uploadedImages) : ~SimpleMustReject(req.files[i])
          /\ \A i \in validatedFiles :
                SimpleMustReject(req.files[i]) /\ (i < idx \/ pc = "done") =>
                    /\ response.status = 500
                    /\ response.message.kind \in {"File too large", "Invalid file type"}
          /\ response.message.kind = "File too large" =>
                \E i \in validatedFiles : req.files[i].buffer.length > 20971520
    /\ req.route = "images" =>
          /\ \A i \in 1..Len(vtask) :
                req.files[i].buffer.length > 20971520 =>
                    vtask[i] \in {"pending", "rejected"} /\ stask = <<>>
          /\ response.message.kind = "is too large" =>
                response.message.file \in
                    {req.files[i].name : i \in {j \in 1..Len(req.files) :
                                           req.files[j].buffer.length > 20971520}}

\* the bytes of the input files and of the variants made from them
originalBytes == Sum([i \in 1..Len(req.files) |-> req.files[i].buffer.length])
optimizedBytes ==
    Sum(flat([f \in 1..Len(optimizedResults) |->
                [v \in 1..Len(optimizedResults[f]) |-> optimizedResults[f][v].size]]))

\* C10: in every success response of the images route the original bytes are
\* more than zero and the compression ratio is a number followed by "%", the
\* integer nearest to (1 - optimizedBytes / originalBytes) * 100 (halves
\* upwards); it is never the outcome of a division by zero.
C10_CompressionRatio ==
    req.route = "images" /\ response.status = 200 =>
        LET o == originalBytes
            t == optimizedBytes
            r == response.stats.compressionRatio[1]
        IN  /\ o > 0
            /\ response.stats.compressionRatio[2] = "%"
            /\ r.kind = "number"
            /\ o < 100000 \/ t = o \/ t < o \div 200
            /\ o < 100000 =>
                  /\ (2 * r.n - 1) * o <= 200 * (o - t)
                  /\ 200 * (o - t) < (2 * r.n + 1) * o
            /\ t = o => r.n = 0
            /\ t < o \div 200 => r.n = 100

\* one file of 1000 bytes optimized to one variant of 400 bytes: 60 percent
C10_Witness ==
    /\ req.route = "images" /\ response.status = 200
    /\ originalBytes = 1000 /\ optimizedBytes = 400
    /\ response.stats.compressionRatio = <<[kind |-> "number", n |-> 60], "%">>

\* the response reports a failure
IsFailure == response.status \in {400, 413, 500}

\* C11: every failure response of both POST handlers (request too large, no
\* files, too many files, validation, optimization and storage failures)
\* carries success = false, a message and the elapsed processing time.
C11_FailureShape ==
    IsFailure =>
        /\ "success" \in response.keys /\ ~response.success
        /\ "message" \in response.keys /\ response.message # NoMessage
        /\ "processingTime" \in response.keys

\* C12: every success response of both POST handlers contains the reference
\* list and the stats record, also when some reference is the placeholder.
C12_SuccessShape ==
    response.status = 200 =>
        /\ response.success
        /\ "images" \in response.keys
        /\ "stats" \in response.keys

\* the optimizer was invoked and failed on the batch
OptimizerFailed ==
    /\ req.route = "images" /\ optimizerCalls > 0
    /\ pc = "done" /\ optimizedResults = <<>>

\* C13: a failure of the optimizer on a file of the batch never becomes the
\* whole-request failure (HTTP 500 'Image upload failed'): the request
\* completes with the outcomes of the other files and a per-file error.
C13_PerFileOptimizationError ==
    OptimizerFailed =>
        /\ ~(response.status = 500 /\ response.error = "Image upload failed")
        /\ "images" \in response.keys

\* the per-file validation sub-tasks in flight: started and not yet settled
validationsInFlight ==
    {i \in 1..Len(vtask) : vtask[i] \in {"buffering", "validating"}}

\* C14: within one request of the images route no more than the concurrency
\* bound (4) of per-file sub-tasks are in flight at any moment, for batches of
\* 1 to 10 files.
C14_BoundedFanOut ==
    req.route = "images" /\ Len(req.files) \in 1..10 =>
        Cardinality(validationsInFlight) <= 4

\* C15: in persistent context, for every interleaving of two requests that
\* find the upload directory absent and both call mkdir, neither fails on the
\* directory existing already, the directory exists afterwards, and both
\* requests go on to write their files.
C15_MkdirIdempotent ==
    /\ response.message.kind # "EEXIST" /\ peer.pc # "failed"
    /\ mkdirCalls > 0 => dirs # {}
    /\ pc \in {"i_validating", "i_optimizing", "i_saving", "s_write"} =>
          uploadTypeOf(req) \in dirs
    /\ pc = "done" /\ Len(req.files) > 0 =>
          /\ response.status = 200
          /\ uploadTypeOf(req) \in dirs
          /\ \A k \in 1..Len(response.images) : response.images[k] \in disk
    /\ peer.pc \in {"write", "done"} => peer.type \in dirs
    /\ peer.pc = "done" => peer.path \in disk

\* both requests found the directory absent, both called mkdir for the same
\* directory, and both have written their files
C15_Witness ==
    /\ mkdirCalls = 2 /\ dirs = {"products"}
    /\ pc = "done" /\ response.status = 200 /\ peer.pc = "done"
    /\ peer.path \in disk /\ response.images[1] \in disk

\* C16: in persistent context no two writes go to the same path: the
\* references one response returns are pairwise distinct, and none of them is
\* the path an overlapping request of the same upload type has written, in
\* the simple route and in the images route, batches with two files of the
\* same name included.
C16_UniquePaths ==
    response.status = 200 =>
        /\ \A j, k \in 1..Len(response.images) :
              j # k => response.images[j] # response.images[k]
        /\ peer.pc = "done" =>
              \A k \in 1..Len(response.images) : response.images[k] # peer.path

\* the format the fallback strategy is to give a file: the lower-cased
\* extension of its name, jpg when the name has none
formatOf(name) == IF extensionOf(name) = "" THEN "jpg" ELSE extensionOf(name)

\* C17: for a batch of n files fallbackProcessImages returns n variant
\* sequences aligned with the input, each of exactly one variant that holds
\* the file's bytes unchanged, has their length as its size, is 800 by 600, and
\* has the lower-cased extension of the file's name as its format, jpg when
\* the name has no extension.
C17_FallbackVariants ==
    callRet # <<>> =>
        LET out == callRet.resolved
        IN  /\ Len(out) = Len(callArg)
            /\ \A i \in 1..Len(callArg) :
                  /\ Len(out[i]) = 1
                  /\ out[i][1].buffer = callArg[i].buffer
                  /\ out[i][1].filename = callArg[i].filename
                  /\ out[i][1].size = callArg[i].buffer.length
                  /\ out[i][1].width = 800 /\ out[i][1].height = 600
                  /\ out[i][1].format = formatOf(callArg[i].filename)

\* C18: the strategy is the one the capability probe found at module load:
\* no step of any request changes it, and the validator and the optimizer a
\* request uses are both of that strategy, for every request the process
\* serves.
C18_StrategyFixed ==
    [][/\ probe' = probe
       /\ used'.validator \in {"", probe}
       /\ used'.optimizer \in {"", probe}
       /\ used'.validator # "" /\ used'.optimizer # "" =>
             used'.validator = used'.optimizer]_vars

\* the second request of a process with the rich strategy has used the rich
\* validator and the rich optimizer
C18_Witness ==
    /\ served = 1 /\ probe = "rich" /\ req.route = "images"
    /\ used = [validator |-> "rich", optimizer |-> "rich"]
    /\ response.status = 200

\* a reference into the local upload directory
IsLocalPath(ref) == ref[1] = "uploads"

\* C19: the storage target is resolved once per request: also when the
\* environment markers change while the request is served, the references of
\* one response are either all local paths or all cloud or placeholder
\* references, in both routes.
C19_OneStorageTarget ==
    response.status = 200 =>
        \/ \A k \in 1..Len(response.images) : IsLocalPath(response.images[k])
        \/ \A k \in 1..Len(response.images) : ~IsLocalPath(response.images[k])

\* the size specs of a level: 1 for fast, 4 for quality, 3 for balanced and
\* for a missing or unrecognised level
SizeSpecsOf(level) ==
    CASE level = "fast" -> <<[width |-> 800, suffix |-> "_optimized"]>>
      [] level = "quality" ->
           <<[width |-> 400, suffix |-> "_thumb"], [width |-> 800, suffix |-> "_medium"],
             [width |-> 1200, suffix |-> "_large"], [width |-> 1920, suffix |-> "_xl"]>>
      [] OTHER ->
           <<[width |-> 400, suffix |-> "_thumb"], [width |-> 800, suffix |-> "_medium"],
             [width |-> 1200, suffix |-> "_large"]>>

\* the options the request's level is mapped to are the level's size specs,
\* and the rich optimizer's variants follow them in order
LevelMapped ==
    /\ getOptimizationOptions(optimizationLevelOf(req)).sizes
          = SizeSpecsOf(req.optimization)
    /\ used.optimizer = "rich" /\ optimizedResults # <<>> =>
          \A f \in 1..Len(optimizedResults) :
              [v \in 1..Len(optimizedResults[f]) |->
                  [width |-> optimizedResults[f][v].width,
                   suffix |-> optimizedResults[f][v].filename[
                                  Len(optimizedResults[f][v].filename) - 1]]]
                = SizeSpecsOf(req.optimization)

\* every reference is uploads/<type>/<filename>, <type> being products when
\* the request names none
UnderUploadType ==
    \A k \in 1..Len(response.images) :
        /\ Len(response.images[k]) >= 3
        /\ response.images[k][1] = "uploads"
        /\ response.images[k][2] = (IF req.type = "" THEN "products" ELSE req.type)

\* a success response for one image in persistent context
OneImageStored ==
    /\ req.route = "images" /\ Len(req.files) = 1
    /\ response.status = 200 /\ ~isServerless

\* C20 as stated: the levels map to 1, 4 and 3 size specs, and one valid image
\* uploaded with optimization=balanced in persistent context yields exactly 3
\* reference paths uploads/<type>/<filename>.
C20_AsStated ==
    req.route = "images" /\ pc # "idle" =>
        /\ LevelMapped
        /\ OneImageStored /\ req.optimization \in {"", "balanced"} =>
              Len(response.images) = 3 /\ UnderUploadType

\* C20 (amended): the levels map to 1, 4 and 3 size specs in that order; one
\* valid image stored in persistent context yields one reference
\* uploads/<type>/<filename> per variant: one per size spec of the level under
\* the rich strategy (3 for balanced), exactly 1 under the fallback strategy
\* whatever the level.
C20_LevelsAndPaths ==
    req.route = "images" /\ pc # "idle" =>
        /\ LevelMapped
        /\ OneImageStored =>
              /\ Len(response.images) =
                    (IF used.optimizer = "rich"
                     THEN Len(SizeSpecsOf(req.optimization)) ELSE 1)
              /\ Len(response.images) = Len(optimizedResults[1])
              /\ UnderUploadType

\* one valid image, optimization=balanced, rich strategy, persistent context:
\* three references under uploads/products
C20_Witness ==
    /\ OneImageStored /\ req.optimization = "balanced" /\ req.type = ""
    /\ used.optimizer = "rich"
    /\ Len(response.images) = 3 /\ UnderUploadType

\* the reference the simple route pushes for file i of a request served by a
\* fresh process: the placeholder, its Cloudinary URL or its local path
simpleRefs(i) ==
    {Placeholder, simpleUrl(i),
     localPath(uploadTypeOf(req), generateUniqueFileName(req.files[i].name, i))}

\* file i of the request passes the simple route's validation
SimpleValid(i) ==
    validateImageFile(req.files[i].buffer, req.files[i].name).isValid

\* C21: the simple route reads, validates and persists file by file in input
\* order: the files read are 1..idx, the files before idx are validated and
\* persisted, nothing else is stored; when file k fails validation the
\* response is a 500 without an images list, the references of files 1..k-1
\* are still stored and files k+1.. were never read, validated or persisted.
C21_PrefixPersisted ==
    req.route = "simple" /\ pc # "idle" =>
        /\ bufferedFiles = 1..idx
        /\ validatedFiles \subseteq 1..idx /\ 1..(idx - 1) \subseteq validatedFiles
        /\ idx >= 1 => Len(uploadedImages) \in {idx - 1, idx}
        /\ \A i \in 1..Len(uploadedImages) :
              /\ SimpleValid(i)
              /\ uploadedImages[i] \in simpleRefs(i)
              /\ uploadedImages[i] = Placeholder \/ uploadedImages[i] \in disk \cup cloud
        /\ Cardinality(disk \cup cloud) <= Len(uploadedImages)
        /\ response.status = 500 =>
              /\ pc = "done"
              /\ ~SimpleValid(idx)
              /\ "images" \notin response.keys /\ response.images = <<>>
              /\ Len(uploadedImages) = idx - 1
              /\ validatedFiles = 1..idx

\* the second of two files fails validation after the first was written to
\* the local disk: a 500, and the first file's image is still on the disk
C21_Witness ==
    /\ req.route = "simple" /\ Len(req.files) = 2
    /\ response.status = 500 /\ idx = 2
    /\ Len(uploadedImages) = 1 /\ uploadedImages[1] \in disk

\* the first of two files fails validation: the second is never read
C21_WitnessFirst ==
    /\ req.route = "simple" /\ Len(req.files) = 2
    /\ response.status = 500 /\ idx = 1
    /\ bufferedFiles = {1} /\ disk \cup cloud = {}

\* the save tasks of the request still in flight
PendingSaves ==
    {<<f, v>> \in (1..MaxBatch + 1) \X (1..MaxSaveTasks + 1) :
        f <= Len(stask) /\ v <= Len(stask[f]) /\ stask[f][v] = "pending"}

\* the images route has answered 500 after its save tasks were started
FailedWhileSaving == req.route = "images" /\ response.status = 500 /\ stask # <<>>

\* the variants of the request the cloud holds, as <<file, variant>>
StoredVariants ==
    {<<f, v>> \in (1..MaxBatch + 1) \X (1..MaxSaveTasks + 1) :
        /\ f <= Len(optimizedResults) /\ v <= Len(optimizedResults[f])
        /\ cloudUrl(uploadTypeOf(req), optimizedResults[f][v].filename) \in cloud}

C22_LeftStored(others) ==
    /\ FailedWhileSaving /\ PendingSaves = {}
    /\ Len(req.files) = 1 /\ Len(optimizedResults[1]) = 3
    /\ response.message = Message("upload failed", optimizedResults[1][2].filename)
    /\ StoredVariants = {<<1, v>> : v \in others}

\* the last four characters of a string, all of it when it is shorter
Last4(s) == [i \in 1..(IF Len(s) < 4 THEN Len(s) ELSE 4) |->
                s[(IF Len(s) < 4 THEN 0 ELSE Len(s) - 4) + i]]

\* two credential records agree on the last four characters of the cloud
\* name and of the API key and on whether the secret is set
SameDisclosed(a, b) ==
    /\ Last4(a.cloudName) = Last4(b.cloudName)
    /\ Last4(a.apiKey) = Last4(b.apiKey)
    /\ (a.apiSecret = <<>>) = (b.apiSecret = <<>>)

\* C23: two processes whose credentials differ only in the value of a set
\* secret, or only in characters before the last four of the cloud name or of
\* the API key, return the same Cloudinary status and the same GET status;
\* configured is true exactly when all three credentials are non-empty, and
\* the GET status is ready exactly when configured is true.
C23_StatusDisclosure ==
    callRet # <<>> /\ "here" \in DOMAIN callRet =>
        LET other == callArg.creds
            here == callRet.here
            there == callRet.there
        IN  /\ SameDisclosed(creds, other) =>
                  /\ here.storage = there.storage
                  /\ here.status = there.status
                  /\ getCloudinaryStatus(creds) = getCloudinaryStatus(other)
            /\ here.storage.cloudinary = getCloudinaryStatus(creds)
            /\ here.storage.cloudinary.configured =
                  (creds.cloudName # <<>> /\ creds.apiKey # <<>>
                   /\ creds.apiSecret # <<>>)
            /\ (here.status = "ready") = here.storage.cloudinary.configured
            /\ (there.status = "ready") = there.storage.cloudinary.configured

\* two configured processes with different secrets answer GET alike
C23_Witness ==
    /\ callRet # <<>> /\ "here" \in DOMAIN callRet
    /\ creds.apiSecret # callArg.creds.apiSecret
    /\ creds.apiSecret # <<>> /\ callArg.creds.apiSecret # <<>>
    /\ callRet.here.status = "ready"
    /\ callRet.here.storage = callRet.there.storage

\* two processes whose five-character cloud names differ in the first
\* character answer GET alike
C23_WitnessName ==
    /\ callRet # <<>> /\ "here" \in DOMAIN callRet
    /\ Len(creds.cloudName) = 5 /\ Len(callArg.creds.cloudName) = 5
    /\ creds.cloudName[1] # callArg.creds.cloudName[1]
    /\ callRet.here.storage = callRet.there.storage

====
